---- MODULE Spec2Model ----
(***************************************************************************)
(* SiteMirror: a mirroring reverse proxy (index.js).  The model covers the *)
(* cache policy, the header transformers, the redirect rewriting and the   *)
(* request pipeline (routes, cache middleware, GET and non-GET handlers).  *)
(*                                                                         *)
(* Strings are modelled as sequences of tokens: a path "/logo.png" is      *)
(* <<"/", "logo", ".", "png">>, a Cache-Control value "private, max-age=60"*)
(* is <<"private", " max-age=60">> (the pieces between the commas), a      *)
(* content type "image/png" is <<"image/", "png">>.  The empty sequence is *)
(* the empty string, which JavaScript treats like an absent value.         *)
(* s.includes(t), s.startsWith(t) and s.split(t) are computed on tokens.   *)
(***************************************************************************)
EXTENDS Integers, Sequences, FiniteSets, TLC

VARIABLES
    CACHE_STRATEGY,     \* process.env.CACHE_STRATEGY: "off", "force" or "auto"
    CACHE_STATIC_ONLY,  \* process.env.CACHE_STATIC_ONLY === 'true'
    cache,              \* the LRUCache: entries, least recently used first
    inflight,           \* requests waiting for originPool.request
    last,               \* what the latest step did (request, response, cache use)
    missSent,           \* history: per cache key, the response sent when it was stored
                        \* and the origin's answer it came from
    call,               \* a pure function's call (specifications of pure functions)
    result              \* and its result

vars == <<CACHE_STRATEGY, CACHE_STATIC_ONLY, cache, inflight, last, missSent, call, result>>

(***************************************************************************)
(* Configuration                                                           *)
(***************************************************************************)
PROTOCOL == "https"
ORIGIN_SERVER == "hono.dev"
CACHE_TTL == 300
CACHE_CLEAR_TOKEN == "123456"

\* LRUCache({max: 100}), scaled down so that eviction happens
CacheMax == 1
\* the number of requests that may wait for the origin at once
MaxInFlight == 1

Strategies == {"off", "force", "auto"}

(***************************************************************************)
(* String helpers                                                          *)
(***************************************************************************)
LowerCaseTable ==
    ("PNG" :> "png") @@ ("JS" :> "js") @@ ("No-Store" :> "no-store") @@
    (" Private" :> " private") @@ ("PRIVATE" :> "private") @@
    ("Content-Length" :> "content-length") @@ ("Content-Encoding" :> "content-encoding") @@
    ("Transfer-Encoding" :> "transfer-encoding") @@ ("Content-Type" :> "content-type") @@
    ("Host" :> "host") @@ ("Connection" :> "connection") @@ ("Keep-Alive" :> "keep-alive") @@
    ("ACCEPT-ENCODING" :> "accept-encoding") @@ ("User-Agent" :> "user-agent") @@
    ("Location" :> "location") @@ ("CONTENT-ENCODING" :> "content-encoding") @@
    ("Set-Cookie" :> "set-cookie") @@ ("IMG" :> "img") @@ ("HREF" :> "href")

toLowerCase(tok) == IF tok \in DOMAIN LowerCaseTable THEN LowerCaseTable[tok] ELSE tok

TrimTable ==
    (" private" :> "private") @@ (" no-store" :> "no-store") @@ (" no-cache" :> "no-cache") @@
    (" max-age=60" :> "max-age=60") @@ (" max-age=300" :> "max-age=300") @@
    (" must-revalidate" :> "must-revalidate") @@ (" public" :> "public")

trim(tok) == IF tok \in DOMAIN TrimTable THEN TrimTable[tok] ELSE tok

SetMax(S) == CHOOSE x \in S : \A y \in S : y <= x
SetMin(S) == CHOOSE x \in S : \A y \in S : x <= y

\* s.includes(t) for a one-token t
includes(s, t) == \E i \in 1..Len(s) : s[i] = t

\* s.startsWith(p) for a token sequence p
startsWith(s, p) == Len(s) >= Len(p) /\ SubSeq(s, 1, Len(p)) = p

\* s.split('.').pop(): what follows the last '.', the whole of s when it has none
splitPop(s) ==
    LET dots == {i \in 1..Len(s) : s[i] = "."}
    IN  IF dots = {} THEN s ELSE SubSeq(s, SetMax(dots) + 1, Len(s))

(***************************************************************************)
(* Resource classifier                                                     *)
(***************************************************************************)
STATIC_EXTENSIONS ==
    {"jpg", "jpeg", "png", "gif", "bmp", "webp", "svg", "ico",
     "woff", "woff2", "ttf", "eot", "otf",
     "css", "js",
     "mp4", "webm", "mp3", "wav", "ogg",
     "pdf", "xml", "json", "txt", "csv", "zip", "gz", "tar", "rar", "7z"}

staticMimeTypes ==
    {"image/", "font/", "application/font-", "application/x-font-",
     "text/css", "application/javascript", "text/javascript",
     "video/", "audio/", "application/pdf", "application/zip",
     "application/x-tar", "application/x-rar-compressed", "application/x-7z-compressed"}

\* a slip: the extension compared without toLowerCase
isStaticResourceCaseSensitive(path, contentType) ==
    \/ /\ path # <<>>
       /\ Len(splitPop(path)) = 1
       /\ splitPop(path)[1] \in STATIC_EXTENSIONS
    \/ /\ contentType # <<>>
       /\ \E mimeType \in staticMimeTypes : includes(contentType, mimeType)

isStaticResource(path, contentType) ==
    LET extension == [i \in 1..Len(splitPop(path)) |-> toLowerCase(splitPop(path)[i])]
    IN  \/ /\ path # <<>>
           /\ Len(extension) = 1
           /\ extension[1] \in STATIC_EXTENSIONS
        \/ /\ contentType # <<>>
           /\ \E mimeType \in staticMimeTypes : includes(contentType, mimeType)

(***************************************************************************)
(* Cache policy engine                                                     *)
(***************************************************************************)
\* cacheControl.toLowerCase().split(',').map(d => d.trim())
directivesOf(cacheControl) ==
    {trim(toLowerCase(cacheControl[i])) : i \in 1..Len(cacheControl)}

\* a slip: 'force' decided before the staticOnly check
shouldCacheResponseForceFirst(path, contentType, cacheControl) ==
    IF CACHE_STRATEGY = "off" THEN FALSE
    ELSE IF CACHE_STRATEGY = "force" THEN TRUE
    ELSE IF CACHE_STATIC_ONLY /\ ~isStaticResource(path, contentType) THEN FALSE
    ELSE IF cacheControl = <<>> THEN TRUE
    ELSE IF "no-store" \in directivesOf(cacheControl)
            \/ "no-cache" \in directivesOf(cacheControl) THEN FALSE
    ELSE IF "private" \in directivesOf(cacheControl) /\ ~CACHE_STATIC_ONLY THEN FALSE
    ELSE TRUE

\* a slip: 'private' not looked at
shouldCacheResponseIgnoresPrivate(path, contentType, cacheControl) ==
    IF CACHE_STRATEGY = "off" THEN FALSE
    ELSE IF CACHE_STATIC_ONLY /\ ~isStaticResource(path, contentType) THEN FALSE
    ELSE IF CACHE_STRATEGY = "force" THEN TRUE
    ELSE IF cacheControl = <<>> THEN TRUE
    ELSE IF "no-store" \in directivesOf(cacheControl)
            \/ "no-cache" \in directivesOf(cacheControl) THEN FALSE
    ELSE TRUE

shouldCacheResponse(path, contentType, cacheControl) ==
    IF CACHE_STRATEGY = "off" THEN FALSE
    ELSE IF CACHE_STATIC_ONLY /\ ~isStaticResource(path, contentType) THEN FALSE
    ELSE IF CACHE_STRATEGY = "force" THEN TRUE
    ELSE IF CACHE_STRATEGY = "auto" THEN
        IF cacheControl = <<>> THEN TRUE
        ELSE IF "no-store" \in directivesOf(cacheControl)
                \/ "no-cache" \in directivesOf(cacheControl) THEN FALSE
        ELSE IF "private" \in directivesOf(cacheControl) /\ ~CACHE_STATIC_ONLY THEN FALSE
        ELSE TRUE
    ELSE FALSE

(***************************************************************************)
(* Headers, responses and errors.  A Headers object is a function from     *)
(* lower-case names to values; a Response is a record.  A body is a token  *)
(* sequence, <<>> for the null body.                                       *)
(***************************************************************************)
\* headers.get(name) || ''
hget(h, name) == IF name \in DOMAIN h THEN h[name] ELSE <<>>

\* headers.set(name, value)
hset(h, name, value) == [k \in DOMAIN h \cup {name} |-> IF k = name THEN value ELSE h[k]]

NoHeaders == [k \in {} |-> <<>>]

Resp(status, statusText, headers, body) ==
    [status |-> status, statusText |-> statusText, headers |-> headers, body |-> body]

NoResp == Resp(0, "", NoHeaders, <<>>)

\* an error: a code and a message
Error(code, message) == [code |-> code, message |-> message]
NoError == Error("", <<>>)
RangeError == Error("", <<"RangeError: ", "init[\"status\"] must be in the range of 200 to 599, inclusive.">>)
TypeError == Error("", <<"TypeError: ", "Invalid response status code">>)

\* the outcome of a block of code: a value, or the error it threw
Returned(resp) == [thrown |-> FALSE, error |-> NoError, resp |-> resp]
Thrown(error) == [thrown |-> TRUE, error |-> error, resp |-> NoResp]

\* new Response(body, {status, statusText, headers}); hasBody: body is not null.
\* The constructor throws for a status outside 200..599 and for a body given
\* with a null-body status.
NullBodyStatus == {101, 103, 204, 205, 304}

NewResponse(body, hasBody, status, statusText, headers) ==
    IF status < 200 \/ status > 599 THEN Thrown(RangeError)
    ELSE IF hasBody /\ status \in NullBodyStatus THEN Thrown(TypeError)
    ELSE Returned(Resp(status, statusText, headers, body))

\* Response.redirect(url, status): throws unless status is a redirect status
RedirectStatus == {301, 302, 303, 307, 308}

ResponseRedirect(url, status) ==
    IF status \notin RedirectStatus THEN Thrown(RangeError)
    ELSE Returned(Resp(status, "", ("location" :> url), <<>>))

\* c.json(object, status) and c.text(text, status)
cJson(fields, status) ==
    Resp(status, "", ("content-type" :> <<"application/json">>), <<"json">> \o fields)

cText(text, status) ==
    Resp(status, "", ("content-type" :> <<"text/plain">>), <<text>>)

\* new HTTPException(status, {message}), and any other error
HTTPException(status, message) == [http |-> TRUE, status |-> status, message |-> message]
NotFinalized == [http |-> FALSE, status |-> 0, message |-> "Context is not finalized"]

\* app.onError
onError(err) ==
    IF err.http THEN cJson(<<"error", err.message>>, err.status)
    ELSE cJson(<<"error", "Internal Server Error">>, 500)

\* the catch block of both proxy handlers: what it throws for a caught error
proxyCatch(error) ==
    IF error.code = "UND_ERR_SOCKET_TIMEOUT" \/ includes(error.message, "timeout")
    THEN HTTPException(504, "Gateway Timeout")
    ELSE HTTPException(502, "Bad Gateway")

(***************************************************************************)
(* Header transformers                                                     *)
(***************************************************************************)
\* a slip: the inbound Host copied like any other header
processHeadersKeepsHost(originalHeaders) ==
    LET kept == {k \in DOMAIN originalHeaders :
                    toLowerCase(k) \notin
                         {"accept-encoding", "connection", "keep-alive", "content-length"}}
    IN  [k \in {toLowerCase(n) : n \in kept} |->
            originalHeaders[CHOOSE n \in kept : toLowerCase(n) = k]]

\* a slip: content-length not in the list of dropped names
processHeadersKeepsLength(originalHeaders) ==
    LET kept == {k \in DOMAIN originalHeaders :
                    toLowerCase(k) \notin {"accept-encoding", "connection", "keep-alive"}}
    IN  [k \in {toLowerCase(n) : n \in kept} |->
            IF k = "host" THEN <<ORIGIN_SERVER>>
            ELSE originalHeaders[CHOOSE n \in kept : toLowerCase(n) = k]]

processHeaders(originalHeaders) ==
    LET kept == {k \in DOMAIN originalHeaders :
                    toLowerCase(k) = "host"
                    \/ toLowerCase(k) \notin
                         {"accept-encoding", "connection", "keep-alive", "content-length"}}
    IN  [k \in {IF toLowerCase(n) = "host" THEN "host" ELSE toLowerCase(n) : n \in kept} |->
            IF k = "host" THEN <<ORIGIN_SERVER>>
            ELSE originalHeaders[CHOOSE n \in kept : toLowerCase(n) = k]]

\* the origin's headers are undici's plain object (the second form of the code)
processResponseHeaders(originalHeaders) ==
    LET kept == {n \in DOMAIN originalHeaders :
                    toLowerCase(n) \notin
                        {"content-encoding", "transfer-encoding", "content-length"}}
    IN  [k \in {toLowerCase(n) : n \in kept} |->
            originalHeaders[CHOOSE n \in kept : toLowerCase(n) = k]]

(***************************************************************************)
(* processResponseHeaders on each form of input.  An input is a form and   *)
(* the pairs its iteration yields: "entries" (an object with entries(),    *)
(* such as a Headers, which may yield a name more than once), "object" (a  *)
(* plain object), "map" (a Map), "none" (null or undefined) and "other"    *)
(* (a string or a number).  A pair has a key and either one string or an   *)
(* array of strings.  The result maps each lower-case name to the list of  *)
(* its values; a value is a token sequence.  A Map has an entries()        *)
(* function, so the first branch of the code takes it.                     *)
(***************************************************************************)
ResponseDropped == {"content-encoding", "transfer-encoding", "content-length"}

NoValues == [k \in {} |-> <<>>]

\* headers.set(key, value) and headers.append(key, value)
valuesSet(h, key, value) == [k \in DOMAIN h \cup {key} |-> IF k = key THEN <<value>> ELSE h[k]]

valuesAppend(h, key, value) ==
    [k \in DOMAIN h \cup {key} |->
        IF k = key THEN (IF key \in DOMAIN h THEN h[key] ELSE <<>>) \o <<value>> ELSE h[k]]

\* String(array): the items joined by commas
RECURSIVE joinComma(_)
joinComma(items) ==
    IF items = <<>> THEN <<>>
    ELSE IF Len(items) = 1 THEN <<items[1]>>
    ELSE <<items[1], ",">> \o joinComma(Tail(items))

\* value.forEach(v => headers.append(key, v))
RECURSIVE appendEach(_, _, _)
appendEach(h, key, items) ==
    IF items = <<>> THEN h
    ELSE appendEach(valuesAppend(h, key, <<items[1]>>), key, Tail(items))

\* one of the loops of the code; arrays tells whether the loop tests
\* Array.isArray(value)
RECURSIVE copyHeaders(_, _, _)
copyHeaders(pairs, headers, arrays) ==
    IF pairs = <<>> THEN headers
    ELSE LET key == toLowerCase(pairs[1].key)
             next == IF key \in ResponseDropped THEN headers
                     ELSE IF arrays /\ pairs[1].array
                     THEN appendEach(headers, key, pairs[1].items)
                     ELSE valuesSet(headers, key, joinComma(pairs[1].items))
         IN  copyHeaders(Tail(pairs), next, arrays)

processResponseHeadersOf(input) ==
    IF input.form = "none" THEN NoValues
    ELSE IF input.form \in {"entries", "map"} THEN copyHeaders(input.pairs, NoValues, FALSE)
    ELSE IF input.form = "object" THEN copyHeaders(input.pairs, NoValues, TRUE)
    ELSE NoValues

(***************************************************************************)
(* Requests and URLs                                                       *)
(***************************************************************************)
schemeToken(protocol) == IF protocol = "https" THEN "https://" ELSE "http://"

\* c.req.url: scheme, host, path and query string
urlOf(req) ==
    <<schemeToken(req.protocol), req.host>> \o req.path
        \o (IF req.token = "" THEN <<>> ELSE <<"?token=", req.token>>)

\* c.req.raw.headers
rawHeaders(req) ==
    ("host" :> <<req.host>>) @@ ("accept-encoding" :> <<"gzip">>) @@
    ("connection" :> <<"keep-alive">>) @@ ("user-agent" :> <<"curl">>)

\* new URL(url): a host with a space in it does not parse, and the
\* constructor throws
InvalidHost == "bad host"

canParse(url) == \A i \in 1..Len(url) : url[i] # InvalidHost

InvalidUrl == Error("ERR_INVALID_URL", <<"TypeError: ", "Invalid URL">>)

(***************************************************************************)
(* Redirect rewriting.  The result <<>> stands for null.                   *)
(***************************************************************************)
\* new URL(c.req.url) stands before the try block of fixRedirectUrl: what it
\* throws leaves the function
fixRedirectUrlThrows(location, req) == location # <<>> /\ ~canParse(urlOf(req))

fixRedirectUrl(location, req) ==
    LET protocol == req.protocol
        host == req.host
        mirror == <<schemeToken(protocol), host>>
        hits == {i \in 1..(Len(location) - 1) :
                    location[i] = schemeToken(PROTOCOL) /\ location[i + 1] = ORIGIN_SERVER}
    IN  IF location = <<>> THEN <<>>
        ELSE IF startsWith(location, <<"http://">>) \/ startsWith(location, <<"https://">>) THEN
            IF includes(location, ORIGIN_SERVER) THEN
                IF hits = {} THEN location
                ELSE SubSeq(location, 1, SetMin(hits) - 1) \o mirror
                        \o SubSeq(location, SetMin(hits) + 2, Len(location))
            ELSE location
        ELSE mirror \o (IF startsWith(location, <<"/">>) THEN location ELSE <<"/">> \o location)

(***************************************************************************)
(* The cache store: lru-cache with a maximum size and a time to live.      *)
(* An entry is [key, value, stale]; the sequence is in order of use, least *)
(* recently used first.  Time is abstract: TtlElapses lets the time to     *)
(* live of every entry pass; a stale entry is dropped by the get that      *)
(* finds it.  cachedAt (diagnostic only) is left out.                      *)
(***************************************************************************)
cacheKeys(c) == {c[i].key : i \in 1..Len(c)}

cacheWithout(c, key) == SelectSeq(c, LAMBDA e : e.key # key)

\* whether cache.get(key) returns an entry
cacheHas(c, key) == \E i \in 1..Len(c) : c[i].key = key /\ ~c[i].stale

\* the value cache.get(key) returns
cacheValue(c, key) == (CHOOSE e \in {c[i] : i \in 1..Len(c)} : e.key = key).value

\* a slip: a get that takes the entry out of the store
cacheAfterGetRemoves(c, key) == cacheWithout(c, key)

\* the store after cache.get(key): a hit becomes the most recently used,
\* a stale entry is deleted
cacheAfterGet(c, key) ==
    IF key \notin cacheKeys(c) THEN c
    ELSE IF cacheHas(c, key)
         THEN Append(cacheWithout(c, key), [key |-> key, value |-> cacheValue(c, key), stale |-> FALSE])
         ELSE cacheWithout(c, key)

\* a slip: a set for a key already in the store changes nothing
cacheAfterSetKeepsFirst(c, key, value) ==
    IF key \in cacheKeys(c) THEN c
    ELSE Append(IF Len(c) >= CacheMax THEN Tail(c) ELSE c,
                [key |-> key, value |-> value, stale |-> FALSE])

\* the store after cache.set(key, value): the least recently used entry is
\* evicted when a new key arrives at a full store
cacheAfterSet(c, key, value) ==
    LET room == IF key \in cacheKeys(c) THEN cacheWithout(c, key)
                ELSE IF Len(c) >= CacheMax THEN Tail(c)
                ELSE c
    IN  Append(room, [key |-> key, value |-> value, stale |-> FALSE])

\* the history kept for the keys still in the store
pruned(ms, c) == [k \in (DOMAIN ms) \cap cacheKeys(c) |-> ms[k]]

(***************************************************************************)
(* Requests, origin answers and the record of the latest step              *)
(***************************************************************************)
Req(method, host, path, token, big) ==
    [method |-> method, protocol |-> "http", host |-> host, path |-> path,
     token |-> token, big |-> big]

NoReq == Req("", "", <<>>, "", FALSE)

LogoPath == <<"/", "logo", ".", "png">>
MePath == <<"/", "me">>
HealthPath == <<"/", "health">>
CacheInfoPath == <<"/", "cache", "/", "info">>
CacheClearPath == <<"/", "cache", "/", "clear">>
CacheStatsPath == <<"/", "cache", "/", "stats">>
CacheOtherPath == <<"/", "cache", "/", "x">>

Mirror == "mirror.local"

ProxiedRequests ==
    { Req("GET", Mirror, LogoPath, "", FALSE), Req("GET", Mirror, MePath, "", FALSE),
      Req("HEAD", Mirror, MePath, "", FALSE),
      Req("POST", Mirror, MePath, "", FALSE), Req("POST", Mirror, MePath, "", TRUE) }

ManagementRequests ==
    { Req("GET", Mirror, CacheInfoPath, CACHE_CLEAR_TOKEN, FALSE),
      Req("GET", Mirror, CacheInfoPath, "bad", FALSE),
      Req("GET", Mirror, CacheClearPath, CACHE_CLEAR_TOKEN, FALSE),
      Req("GET", Mirror, CacheClearPath, "bad", FALSE),
      Req("GET", Mirror, CacheClearPath, "", FALSE),
      Req("HEAD", Mirror, CacheClearPath, "", FALSE),
      Req("GET", Mirror, CacheStatsPath, "", FALSE),
      Req("GET", Mirror, CacheOtherPath, "", FALSE),
      Req("GET", Mirror, HealthPath, "", FALSE),
      Req("POST", Mirror, HealthPath, "", FALSE) }

Requests == ProxiedRequests \cup ManagementRequests

\* what originPool.request resolves to
Origin(statusCode, statusMessage, headers, body) ==
    [failed |-> FALSE, error |-> NoError,
     statusCode |-> statusCode, statusMessage |-> statusMessage,
     headers |-> headers, body |-> body]

\* or the error it rejects with
OriginError(code, message) ==
    [failed |-> TRUE, error |-> Error(code, message),
     statusCode |-> 0, statusMessage |-> "", headers |-> NoHeaders, body |-> <<>>]

Html == <<"text/html">>
Png == <<"image/", "png">>
OriginLocation == <<"https://", ORIGIN_SERVER, "/", "x">>

OriginAnswers ==
    { Origin(200, "OK", ("content-type" :> Html) @@ ("content-length" :> <<"2">>), <<"b1">>),
      Origin(200, "OK", ("content-type" :> Html) @@ ("cache-control" :> <<"max-age=60", " Private">>), <<"b1">>),
      Origin(200, "OK", ("content-type" :> Png) @@ ("cache-control" :> <<"No-Store">>)
                          @@ ("content-encoding" :> <<"gzip">>), <<"b2">>),
      Origin(200, "Fine", ("content-type" :> Html) @@ ("cache-control" :> <<"max-age=60">>), <<"b2">>),
      Origin(301, "Moved Permanently", ("location" :> OriginLocation), <<>>),
      Origin(302, "Found", ("content-type" :> Html), <<"b1">>),
      Origin(300, "Multiple Choices", ("location" :> OriginLocation), <<"b1">>),
      Origin(304, "Not Modified", ("cache-control" :> <<"max-age=60">>), <<>>),
      Origin(204, "No Content", NoHeaders, <<>>),
      Origin(404, "Not Found", ("content-type" :> Html), <<"b1">>),
      OriginError("UND_ERR_SOCKET_TIMEOUT", <<"socket ", "timeout">>),
      OriginError("ECONNREFUSED", <<"connect ", "ECONNREFUSED">>),
      OriginError("UND_ERR_HEADERS_TIMEOUT", <<"Headers ", "Timeout", " Error">>) }

\* kind: "init", "responded" (answered without the origin), "forwarded" (sent
\* to the origin), "completed" (answered after the origin), "ttl"
\* origin: the origin's answer that a "completed" step handled
NoOrigin == Origin(0, "", NoHeaders, <<>>)

Step(kind, req, resp, cacheGet, cacheSet, origin) ==
    [kind |-> kind, req |-> req, resp |-> resp, cacheGet |-> cacheGet, cacheSet |-> cacheSet,
     origin |-> origin]

(***************************************************************************)
(* The pipeline.  Hono serves a HEAD request through the GET routes and    *)
(* drops the body of the answer; a handler that returns nothing without    *)
(* calling next leaves the context unfinalized, which Hono reports as an   *)
(* error to app.onError.  The middleware registered with app.use (timing,  *)
(* compression, pretty JSON, HTML injection, logging) is outside the       *)
(* pipeline and not modelled: a response here is c.res as the routes leave *)
(* it.                                                                     *)
(***************************************************************************)
routeMethod(method) == IF method = "HEAD" THEN "GET" ELSE method

headOf(req, resp) == IF req.method = "HEAD" THEN [resp EXCEPT !.body = <<>>] ELSE resp

maxAgeDirective(ttl) == IF ttl = 300 THEN " max-age=300" ELSE " max-age=?"
publicMaxAge == <<"public", maxAgeDirective(CACHE_TTL)>>
noStore == <<"no-cache", " no-store", " must-revalidate">>

cacheKeyOf(req) == <<"cache:">> \o urlOf(req)

isManagementPath(path) == path = HealthPath \/ startsWith(path, <<"/", "cache", "/">>)

\* a request waiting for the origin: looked tells that the cache middleware
\* looked the key up and will post-process the answer
Waiting(req, looked) ==
    [req |-> req, looked |-> looked, headers |-> processHeaders(rawHeaders(req))]

\* app.get('/health')
healthHandler(req) == cText("OK", 200)

Health(req) ==
    /\ routeMethod(req.method) = "GET"
    /\ req.path = HealthPath
    /\ last' = Step("responded", req, headOf(req, healthHandler(req)), FALSE, FALSE, NoOrigin)
    /\ UNCHANGED <<CACHE_STRATEGY, CACHE_STATIC_ONLY, cache, inflight, missSent, call, result>>

cacheDisabled == cJson(<<"error", "Cache is disabled">>, 403)

\* app.get('/cache/info')
cacheInfoHandler(req) ==
    IF CACHE_STRATEGY = "off" THEN cacheDisabled
    ELSE IF CACHE_CLEAR_TOKEN # req.token THEN cText("Unauthorized", 401)
    ELSE cJson(<<"size", ToString(Len(cache)), "max", ToString(CacheMax),
                 "strategy", CACHE_STRATEGY, "staticOnly", ToString(CACHE_STATIC_ONLY)>>, 200)

CacheInfo(req) ==
    /\ routeMethod(req.method) = "GET"
    /\ req.path = CacheInfoPath
    /\ last' = Step("responded", req, headOf(req, cacheInfoHandler(req)),
                    cacheInfoHandler(req).status = 200, FALSE, NoOrigin)
    /\ UNCHANGED <<CACHE_STRATEGY, CACHE_STATIC_ONLY, cache, inflight, missSent, call, result>>

\* a slip: the handler answers without emptying the store
cacheClearHandlerKeeps(req) ==
    IF CACHE_STRATEGY = "off" THEN [cleared |-> FALSE, resp |-> cacheDisabled]
    ELSE [cleared |-> FALSE,
          resp |-> cJson(<<"message", "Cache cleared successfully", "success", "true">>, 200)]

\* app.get('/cache/clear')
cacheClearHandler(req) ==
    IF CACHE_STRATEGY = "off" THEN [cleared |-> FALSE, resp |-> cacheDisabled]
    ELSE [cleared |-> TRUE,
          resp |-> cJson(<<"message", "Cache cleared successfully", "success", "true">>, 200)]

CacheClear(req) ==
    /\ routeMethod(req.method) = "GET"
    /\ req.path = CacheClearPath
    /\ LET h == cacheClearHandler(req)
       IN  /\ cache' = IF h.cleared THEN <<>> ELSE cache
           /\ missSent' = pruned(missSent, cache')
           /\ last' = Step("responded", req, headOf(req, h.resp), FALSE, h.cleared, NoOrigin)
    /\ UNCHANGED <<CACHE_STRATEGY, CACHE_STATIC_ONLY, inflight, call, result>>

\* app.get('/cache/stats'): cache.entries() leaves the stale entries out
cacheStatsHandler(req) ==
    IF CACHE_STRATEGY = "off" THEN cacheDisabled
    ELSE LET cacheEntries == SelectSeq(cache, LAMBDA e : ~e.stale /\ startsWith(e.key, <<"cache:">>))
         IN  cJson(<<"total", ToString(Len(cacheEntries)),
                     "strategy", CACHE_STRATEGY, "staticOnly", ToString(CACHE_STATIC_ONLY)>>, 200)

CacheStats(req) ==
    /\ routeMethod(req.method) = "GET"
    /\ req.path = CacheStatsPath
    /\ last' = Step("responded", req, headOf(req, cacheStatsHandler(req)),
                    cacheStatsHandler(req).status = 200, FALSE, NoOrigin)
    /\ UNCHANGED <<CACHE_STRATEGY, CACHE_STATIC_ONLY, cache, inflight, missSent, call, result>>

(***************************************************************************)
(* staticCacheMiddleware, in its three parts: the checks and the lookup    *)
(* before next(), the hit, and the post-processing after next().           *)
(***************************************************************************)
\* a slip: the middleware without its check of the 'off' strategy
staticCacheLooksWhenOff(req) ==
    /\ ~startsWith(req.path, <<"/", "cache", "/">>)
    /\ req.method = "GET"

\* a slip: the middleware without its check of the paths under /cache/
staticCacheLooksAtCachePaths(req) ==
    /\ CACHE_STRATEGY # "off"
    /\ req.method = "GET"

\* whether the middleware goes on to the lookup
staticCacheLooks(req) ==
    /\ CACHE_STRATEGY # "off"
    /\ ~startsWith(req.path, <<"/", "cache", "/">>)
    /\ req.method = "GET"

\* the response built from a cached entry
staticCacheHit(cacheKey, cached) ==
    LET responseHeaders ==
            hset(hset(hset(cached.headers, "x-cache", <<"HIT">>),
                      "x-cache-key", cacheKey),
                 "x-cache-strategy", <<CACHE_STRATEGY>>)
    IN  Resp(cached.status, cached.statusText, responseHeaders, cached.body)

NoValue == [body |-> <<>>, contentType |-> <<>>, status |-> 0, statusText |-> "",
            headers |-> NoHeaders]

\* a slip: the Cache-Control of a stored response left as the handler set it
staticCacheAfterKeepsCacheControl(req, res) ==
    LET contentType == hget(res.headers, "content-type")
        cacheControl == hget(res.headers, "cache-control")
        diagnosed == hset(hset(hset(res.headers, "x-cache", <<"MISS (Cached)">>),
                               "x-cache-key", cacheKeyOf(req)),
                          "x-cache-strategy", <<CACHE_STRATEGY>>)
        bypassHeaders ==
            hset(hset(hset(hset(res.headers, "x-cache", <<"BYPASS">>),
                           "x-cache-strategy", <<CACHE_STRATEGY>>),
                      "x-cache-reason", <<"cache-control-forbidden">>),
                 "cache-control", noStore)
    IN  IF res.status # 200 THEN [stored |-> FALSE, value |-> NoValue, resp |-> res]
        ELSE IF shouldCacheResponse(req.path, contentType, cacheControl) THEN
            [stored |-> TRUE,
             value |-> [body |-> res.body, contentType |-> contentType, status |-> res.status,
                        statusText |-> res.statusText, headers |-> res.headers],
             resp |-> [res EXCEPT !.headers = diagnosed]]
        ELSE [stored |-> FALSE, value |-> NoValue,
              resp |-> [res EXCEPT !.headers = bypassHeaders]]

\* after next(): res is c.res.  The result tells whether cache.set was called,
\* with which value, and what c.res is afterwards.
\* a slip: the middleware without its check of the status
staticCacheAfterStoresAnyStatus(req, res) ==
    LET contentType == hget(res.headers, "content-type")
        cacheControl == hget(res.headers, "cache-control")
        path == req.path
        shouldCache == shouldCacheResponse(path, contentType, cacheControl)
        diagnosed == hset(hset(hset(res.headers, "x-cache", <<"MISS (Cached)">>),
                               "x-cache-key", cacheKeyOf(req)),
                          "x-cache-strategy", <<CACHE_STRATEGY>>)
        cachedHeaders ==
            IF CACHE_STRATEGY = "force" THEN hset(diagnosed, "cache-control", publicMaxAge)
            ELSE IF CACHE_STRATEGY = "auto" /\ cacheControl = <<>>
                 THEN hset(diagnosed, "cache-control", publicMaxAge)
            ELSE diagnosed
        reason ==
            IF CACHE_STRATEGY = "off" THEN "disabled"
            ELSE IF CACHE_STATIC_ONLY /\ ~isStaticResource(path, contentType) THEN "non-static"
            ELSE "cache-control-forbidden"
        bypassHeaders ==
            hset(hset(hset(hset(res.headers, "x-cache", <<"BYPASS">>),
                           "x-cache-strategy", <<CACHE_STRATEGY>>),
                      "x-cache-reason", <<reason>>),
                 "cache-control", noStore)
    IN  IF shouldCache THEN
            [stored |-> TRUE,
             value |-> [body |-> res.body, contentType |-> contentType, status |-> res.status,
                        statusText |-> res.statusText, headers |-> res.headers],
             resp |-> [res EXCEPT !.headers = cachedHeaders]]
        ELSE [stored |-> FALSE, value |-> NoValue,
              resp |-> [res EXCEPT !.headers = bypassHeaders]]

staticCacheAfter(req, res) ==
    LET contentType == hget(res.headers, "content-type")
        cacheControl == hget(res.headers, "cache-control")
        path == req.path
        shouldCache == shouldCacheResponse(path, contentType, cacheControl)
        diagnosed == hset(hset(hset(res.headers, "x-cache", <<"MISS (Cached)">>),
                               "x-cache-key", cacheKeyOf(req)),
                          "x-cache-strategy", <<CACHE_STRATEGY>>)
        cachedHeaders ==
            IF CACHE_STRATEGY = "force" THEN hset(diagnosed, "cache-control", publicMaxAge)
            ELSE IF CACHE_STRATEGY = "auto" /\ cacheControl = <<>>
                 THEN hset(diagnosed, "cache-control", publicMaxAge)
            ELSE diagnosed
        reason ==
            IF CACHE_STRATEGY = "off" THEN "disabled"
            ELSE IF CACHE_STATIC_ONLY /\ ~isStaticResource(path, contentType) THEN "non-static"
            ELSE "cache-control-forbidden"
        bypassHeaders ==
            hset(hset(hset(hset(res.headers, "x-cache", <<"BYPASS">>),
                           "x-cache-strategy", <<CACHE_STRATEGY>>),
                      "x-cache-reason", <<reason>>),
                 "cache-control", noStore)
    IN  IF res.status # 200 THEN [stored |-> FALSE, value |-> NoValue, resp |-> res]
        ELSE IF shouldCache THEN
            [stored |-> TRUE,
             value |-> [body |-> res.body, contentType |-> contentType, status |-> res.status,
                        statusText |-> res.statusText, headers |-> res.headers],
             resp |-> [res EXCEPT !.headers = cachedHeaders]]
        ELSE [stored |-> FALSE, value |-> NoValue,
              resp |-> [res EXCEPT !.headers = bypassHeaders]]

(***************************************************************************)
(* The proxy handlers, from the origin's answer on                         *)
(***************************************************************************)
\* the redirect both handlers try first: <<>> when there is none to make
fixedLocationOf(req, response) ==
    IF response.statusCode >= 300 /\ response.statusCode < 400
    THEN fixRedirectUrl(hget(response.headers, "location"), req)
    ELSE <<>>

\* whether the redirect both handlers try first throws
redirectThrows(req, response) ==
    /\ response.statusCode >= 300 /\ response.statusCode < 400
    /\ fixRedirectUrlThrows(hget(response.headers, "location"), req)

\* the try block of app.get('*')
getHandlerTry(req, response) ==
    LET responseHeaders == processResponseHeaders(response.headers)
        contentType == hget(response.headers, "content-type")
        withCacheControl ==
            IF CACHE_STRATEGY = "force" /\ isStaticResource(req.path, contentType)
            THEN hset(responseHeaders, "cache-control", publicMaxAge)
            ELSE IF CACHE_STRATEGY = "auto" THEN
                IF hget(responseHeaders, "cache-control") = <<>>
                   /\ isStaticResource(req.path, contentType)
                THEN hset(responseHeaders, "cache-control", publicMaxAge)
                ELSE responseHeaders
            ELSE hset(responseHeaders, "cache-control", noStore)
    IN  IF response.failed THEN Thrown(response.error)
        ELSE IF redirectThrows(req, response) THEN Thrown(InvalidUrl)
        ELSE IF fixedLocationOf(req, response) # <<>>
        THEN ResponseRedirect(fixedLocationOf(req, response), response.statusCode)
        ELSE IF response.statusCode = 304
        THEN NewResponse(<<>>, FALSE, 304, response.statusMessage, responseHeaders)
        ELSE NewResponse(response.body, TRUE, response.statusCode, response.statusMessage,
                         withCacheControl)

\* the try block of app.all('*')
allHandlerTry(req, response) ==
    LET responseHeaders == processResponseHeaders(response.headers)
    IN  IF response.failed THEN Thrown(response.error)
        ELSE IF redirectThrows(req, response) THEN Thrown(InvalidUrl)
        ELSE IF fixedLocationOf(req, response) # <<>>
        THEN ResponseRedirect(fixedLocationOf(req, response), response.statusCode)
        ELSE IF response.statusCode = 304
        THEN NewResponse(<<>>, FALSE, 304, response.statusMessage, responseHeaders)
        ELSE NewResponse(response.body, TRUE, response.statusCode, response.statusMessage,
                         hset(responseHeaders, "cache-control", noStore))

\* a slip: what the try block throws is answered by nothing
handledLosesError(outcome) == outcome.resp

\* a handler's try and catch, and app.onError for what the catch throws
handled(outcome) ==
    IF outcome.thrown THEN onError(proxyCatch(outcome.error)) ELSE outcome.resp

removeAt(seq, i) == SubSeq(seq, 1, i - 1) \o SubSeq(seq, i + 1, Len(seq))

(***************************************************************************)
(* app.get('*', staticCacheMiddleware, handler)                            *)
(***************************************************************************)
\* capacity: how many requests may wait for the origin at once
GetStarUpTo(req, capacity) ==
    /\ routeMethod(req.method) = "GET"
    /\ req.path \notin {HealthPath, CacheInfoPath, CacheClearPath, CacheStatsPath}
    /\ IF staticCacheLooks(req) THEN
            /\ cache' = cacheAfterGet(cache, cacheKeyOf(req))
            /\ missSent' = pruned(missSent, cache')
            /\ IF cacheHas(cache, cacheKeyOf(req)) THEN
                    /\ last' = Step("responded", req,
                                    staticCacheHit(cacheKeyOf(req), cacheValue(cache, cacheKeyOf(req))),
                                    TRUE, FALSE, NoOrigin)
                    /\ UNCHANGED inflight
               ELSE /\ Len(inflight) < capacity
                    /\ inflight' = Append(inflight, Waiting(req, TRUE))
                    /\ last' = Step("forwarded", req, NoResp, TRUE, FALSE, NoOrigin)
       ELSE IF isManagementPath(req.path) THEN
            /\ last' = Step("responded", req, headOf(req, onError(NotFinalized)), FALSE, FALSE, NoOrigin)
            /\ UNCHANGED <<cache, inflight, missSent>>
       ELSE /\ Len(inflight) < capacity
            /\ inflight' = Append(inflight, Waiting(req, FALSE))
            /\ last' = Step("forwarded", req, NoResp, FALSE, FALSE, NoOrigin)
            /\ UNCHANGED <<cache, missSent>>
    /\ UNCHANGED <<CACHE_STRATEGY, CACHE_STATIC_ONLY, call, result>>

GetStar(req) == GetStarUpTo(req, MaxInFlight)

\* the origin answers (or the call fails): the rest of the handler, then the
\* rest of the middleware
GetStarAnswered(i, response) ==
    /\ i \in 1..Len(inflight)
    /\ routeMethod(inflight[i].req.method) = "GET"
    /\ LET req == inflight[i].req
           res == handled(getHandlerTry(req, response))
           after == IF inflight[i].looked THEN staticCacheAfter(req, res)
                    ELSE [stored |-> FALSE, value |-> NoValue, resp |-> res]
       IN  /\ cache' = IF after.stored THEN cacheAfterSet(cache, cacheKeyOf(req), after.value)
                       ELSE cache
           /\ missSent' = IF after.stored
                          THEN pruned((cacheKeyOf(req) :> [sent |-> after.resp, origin |-> response])
                                          @@ missSent, cache')
                          ELSE missSent
           /\ last' = Step("completed", req, headOf(req, after.resp), FALSE, after.stored, response)
    /\ inflight' = removeAt(inflight, i)
    /\ UNCHANGED <<CACHE_STRATEGY, CACHE_STATIC_ONLY, call, result>>

(***************************************************************************)
(* app.all('*', bodyLimit, handler)                                        *)
(***************************************************************************)
AllStar(req) ==
    /\ routeMethod(req.method) # "GET"
    /\ IF req.big THEN
            /\ last' = Step("responded", req, cText("overflow :(", 413), FALSE, FALSE, NoOrigin)
            /\ UNCHANGED inflight
       ELSE IF req.method = "GET" \/ isManagementPath(req.path) THEN
            /\ last' = Step("responded", req, onError(NotFinalized), FALSE, FALSE, NoOrigin)
            /\ UNCHANGED inflight
       ELSE /\ Len(inflight) < MaxInFlight
            /\ inflight' = Append(inflight, Waiting(req, FALSE))
            /\ last' = Step("forwarded", req, NoResp, FALSE, FALSE, NoOrigin)
    /\ UNCHANGED <<CACHE_STRATEGY, CACHE_STATIC_ONLY, cache, missSent, call, result>>

AllStarAnswered(i, response) ==
    /\ i \in 1..Len(inflight)
    /\ routeMethod(inflight[i].req.method) # "GET"
    /\ last' = Step("completed", inflight[i].req,
                    handled(allHandlerTry(inflight[i].req, response)), FALSE, FALSE, response)
    /\ inflight' = removeAt(inflight, i)
    /\ UNCHANGED <<CACHE_STRATEGY, CACHE_STATIC_ONLY, cache, missSent, call, result>>

\* the time to live of every entry in the store passes
TtlElapses ==
    /\ \E i \in 1..Len(cache) : ~cache[i].stale
    /\ cache' = [i \in 1..Len(cache) |-> [cache[i] EXCEPT !.stale = TRUE]]
    /\ last' = Step("ttl", NoReq, NoResp, FALSE, FALSE, NoOrigin)
    /\ UNCHANGED <<CACHE_STRATEGY, CACHE_STATIC_ONLY, inflight, missSent, call, result>>

(***************************************************************************)
(* The specification of the server                                         *)
(***************************************************************************)
NoCall == [op |-> "none"]
NoResult == [done |-> FALSE]

Init ==
    /\ CACHE_STRATEGY \in Strategies
    /\ CACHE_STATIC_ONLY \in BOOLEAN
    /\ cache = <<>>
    /\ inflight = <<>>
    /\ last = Step("init", NoReq, NoResp, FALSE, FALSE, NoOrigin)
    /\ missSent = [k \in {} |-> [sent |-> NoResp, origin |-> NoOrigin]]
    /\ call = NoCall
    /\ result = NoResult

Next ==
    \/ \E req \in Requests : Health(req)
    \/ \E req \in Requests : CacheInfo(req)
    \/ \E req \in Requests : CacheClear(req)
    \/ \E req \in Requests : CacheStats(req)
    \/ \E req \in Requests : GetStar(req)
    \/ \E req \in Requests : AllStar(req)
    \/ \E i \in 1..MaxInFlight, response \in OriginAnswers : GetStarAnswered(i, response)
    \/ \E i \in 1..MaxInFlight, response \in OriginAnswers : AllStarAnswered(i, response)
    \/ TtlElapses

Spec == Init /\ [][Next]_vars

(***************************************************************************)
(* The server with origin calls that end: an awaited originPool.request    *)
(* resolves or rejects, the longest waiting first.  The requests and the   *)
(* origin's answers are a part of those above: one request for each route  *)
(* and for each way a handler ends.                                        *)
(***************************************************************************)
LiveRequests ==
    { Req("GET", Mirror, MePath, "", FALSE),
      Req("HEAD", Mirror, MePath, "", FALSE),
      Req("POST", Mirror, MePath, "", FALSE),
      Req("POST", Mirror, MePath, "", TRUE),
      Req("GET", Mirror, CacheInfoPath, CACHE_CLEAR_TOKEN, FALSE),
      Req("GET", Mirror, CacheClearPath, "", FALSE),
      Req("GET", Mirror, CacheStatsPath, "", FALSE),
      Req("GET", Mirror, CacheOtherPath, "", FALSE),
      Req("POST", Mirror, CacheOtherPath, "", FALSE),
      Req("GET", Mirror, HealthPath, "", FALSE),
      Req("POST", Mirror, HealthPath, "", FALSE) }

LiveAnswers ==
    { Origin(200, "OK", ("content-type" :> Html), <<"b1">>),
      Origin(301, "Moved Permanently", ("location" :> OriginLocation), <<>>),
      Origin(204, "No Content", NoHeaders, <<>>),
      OriginError("UND_ERR_HEADERS_TIMEOUT", <<"Headers ", "Timeout", " Error">>) }

NextLive ==
    \/ \E req \in LiveRequests : Health(req)
    \/ \E req \in LiveRequests : CacheInfo(req)
    \/ \E req \in LiveRequests : CacheClear(req)
    \/ \E req \in LiveRequests : CacheStats(req)
    \/ \E req \in LiveRequests : GetStar(req)
    \/ \E req \in LiveRequests : AllStar(req)
    \/ \E i \in 1..MaxInFlight, response \in LiveAnswers : GetStarAnswered(i, response)
    \/ \E i \in 1..MaxInFlight, response \in LiveAnswers : AllStarAnswered(i, response)
    \/ TtlElapses

\* the origin call of the request that has waited longest resolves or rejects
AnswerFirst ==
    \E response \in LiveAnswers : GetStarAnswered(1, response) \/ AllStarAnswered(1, response)

SpecLive == Init /\ [][NextLive]_vars /\ WF_vars(AnswerFirst)

(***************************************************************************)
(* The server under concurrent GET requests: one more request may wait for *)
(* the origin than above, so that two requests for one URL overlap.        *)
(***************************************************************************)
RaceInFlight == MaxInFlight + 1

RaceRequests == {Req("GET", Mirror, MePath, "", FALSE), Req("GET", Mirror, LogoPath, "", FALSE)}

RaceAnswers ==
    { Origin(200, "OK", ("content-type" :> Html), <<"b1">>),
      Origin(200, "OK", ("content-type" :> Html), <<"b2">>),
      Origin(200, "OK", ("content-type" :> Png) @@ ("cache-control" :> <<"No-Store">>), <<"b1">>),
      Origin(404, "Not Found", ("content-type" :> Html), <<"b1">>) }

NextRace ==
    \/ \E req \in RaceRequests : GetStarUpTo(req, RaceInFlight)
    \/ \E i \in 1..RaceInFlight, response \in RaceAnswers : GetStarAnswered(i, response)

SpecRace == Init /\ [][NextRace]_vars

(***************************************************************************)
(* The specification of shouldCacheResponse as a pure function: the        *)
(* configuration and the arguments are drawn at the start, the call is the *)
(* one step.                                                               *)
(***************************************************************************)
PolicyPaths == {LogoPath, MePath, <<"/", "app", ".", "JS">>, <<"/", "v1", ".", "2", "/", "users">>}
PolicyContentTypes == {<<>>, Html, Png}
PolicyCacheControls ==
    { <<>>, <<"private">>, <<"No-Store">>, <<"max-age=60">>, <<"max-age=60", " no-cache">>,
      <<"max-age=60", " Private">>, <<"public", " no-store">>, <<"PRIVATE", " no-store">> }

InitPolicy ==
    /\ CACHE_STRATEGY \in Strategies
    /\ CACHE_STATIC_ONLY \in BOOLEAN
    /\ cache = <<>>
    /\ inflight = <<>>
    /\ last = Step("init", NoReq, NoResp, FALSE, FALSE, NoOrigin)
    /\ missSent = [k \in {} |-> [sent |-> NoResp, origin |-> NoOrigin]]
    /\ call \in [op : {"shouldCacheResponse"}, path : PolicyPaths,
                 contentType : PolicyContentTypes, cacheControl : PolicyCacheControls]
    /\ result = NoResult

CallShouldCacheResponse ==
    /\ call.op = "shouldCacheResponse"
    /\ ~result.done
    /\ result' = [done |-> TRUE,
                  value |-> shouldCacheResponse(call.path, call.contentType, call.cacheControl)]
    /\ UNCHANGED <<CACHE_STRATEGY, CACHE_STATIC_ONLY, cache, inflight, last, missSent, call>>

NextPolicy == CallShouldCacheResponse

SpecPolicy == InitPolicy /\ [][NextPolicy]_vars

(***************************************************************************)
(* The specification of the forwarding of a request's headers: the inbound *)
(* headers are drawn at the start, the one step builds the headers given   *)
(* to originPool.request.  The pool sends its origin's host as Host when   *)
(* the request's headers name none.                                        *)
(***************************************************************************)
InboundNames ==
    {"Host", "ACCEPT-ENCODING", "Connection", "keep-alive", "Content-Length", "User-Agent", "x-token"}

inboundValue(name) ==
    IF toLowerCase(name) = "host" THEN <<Mirror>>
    ELSE IF toLowerCase(name) = "accept-encoding" THEN <<"gzip", " br">>
    ELSE IF toLowerCase(name) = "x-token" THEN <<ORIGIN_SERVER>>
    ELSE <<toLowerCase(name), "-value">>

InboundHeaders == {[n \in names |-> inboundValue(n)] : names \in SUBSET InboundNames}

\* the Host header of the request the pool sends
hostSent(headers) == IF "host" \in DOMAIN headers THEN headers["host"] ELSE <<ORIGIN_SERVER>>

InitForward ==
    /\ CACHE_STRATEGY \in Strategies
    /\ CACHE_STATIC_ONLY \in BOOLEAN
    /\ cache = <<>>
    /\ inflight = <<>>
    /\ last = Step("init", NoReq, NoResp, FALSE, FALSE, NoOrigin)
    /\ missSent = [k \in {} |-> [sent |-> NoResp, origin |-> NoOrigin]]
    /\ call \in [op : {"forward"}, method : {"GET", "POST"}, headers : InboundHeaders]
    /\ result = NoResult

CallForward ==
    /\ call.op = "forward"
    /\ ~result.done
    /\ result' = [done |-> TRUE,
                  headers |-> processHeaders(call.headers),
                  host |-> hostSent(processHeaders(call.headers))]
    /\ UNCHANGED <<CACHE_STRATEGY, CACHE_STATIC_ONLY, cache, inflight, last, missSent, call>>

NextForward == CallForward

SpecForward == InitForward /\ [][NextForward]_vars

(***************************************************************************)
(* The specification of processResponseHeaders as a pure function          *)
(***************************************************************************)
ResponseNames == {"CONTENT-ENCODING", "Content-Length", "Transfer-Encoding", "set-cookie", "x-a"}

\* the pairs an entries() yields: one string each
EntryPairs == {[key |-> k, array |-> FALSE, items |-> <<v>>] : k \in ResponseNames, v \in {"v1", "v2"}}

\* the properties of a plain object or the entries of a Map: a string or an array
ObjectPairs ==
    {[key |-> k, array |-> FALSE, items |-> <<"v1">>] : k \in ResponseNames}
    \cup {[key |-> k, array |-> TRUE, items |-> vs] :
              k \in ResponseNames, vs \in {<<>>, <<"v1">>, <<"v1", "v2">>}}

MaxPairs == 2

pairLists(pairs) == UNION {[1..n -> pairs] : n \in 0..MaxPairs}

distinctKeys(list) == \A i, j \in 1..Len(list) : i # j => list[i].key # list[j].key

ResponseInputs ==
    {[form |-> "entries", pairs |-> l] : l \in pairLists(EntryPairs)}
    \cup {[form |-> f, pairs |-> l] :
              f \in {"object", "map"}, l \in {x \in pairLists(ObjectPairs) : distinctKeys(x)}}
    \cup {[form |-> f, pairs |-> <<>>] : f \in {"none", "other"}}

InitResponseHeaders ==
    /\ CACHE_STRATEGY \in Strategies
    /\ CACHE_STATIC_ONLY \in BOOLEAN
    /\ cache = <<>>
    /\ inflight = <<>>
    /\ last = Step("init", NoReq, NoResp, FALSE, FALSE, NoOrigin)
    /\ missSent = [k \in {} |-> [sent |-> NoResp, origin |-> NoOrigin]]
    /\ call \in [op : {"processResponseHeaders"}, input : ResponseInputs]
    /\ result = NoResult

CallProcessResponseHeaders ==
    /\ call.op = "processResponseHeaders"
    /\ ~result.done
    /\ result' = [done |-> TRUE, headers |-> processResponseHeadersOf(call.input)]
    /\ UNCHANGED <<CACHE_STRATEGY, CACHE_STATIC_ONLY, cache, inflight, last, missSent, call>>

NextResponseHeaders == CallProcessResponseHeaders

SpecResponseHeaders == InitResponseHeaders /\ [][NextResponseHeaders]_vars

(***************************************************************************)
(* The specification of fixRedirectUrl as a pure function                  *)
(***************************************************************************)
Locations ==
    { <<>>,
      <<"https://", ORIGIN_SERVER>>,
      <<"https://", ORIGIN_SERVER, "/", "x">>,
      <<"https://", ORIGIN_SERVER, "/", "x", "?u=", "https://", ORIGIN_SERVER, "/", "y">>,
      <<"http://", ORIGIN_SERVER, "/", "x">>,
      <<"http://", ORIGIN_SERVER>>,
      <<"https://", "other.example", "/", "x">>,
      <<"http://", "other.example", "/", "x">>,
      <<"https://", "other.example", "/", ORIGIN_SERVER>>,
      <<"https://", "other.example", "/", "x", "?u=", "https://", ORIGIN_SERVER, "/", "y">>,
      <<"https://", "other.example", "/", "x", "?u=", ORIGIN_SERVER>>,
      <<"https://", ORIGIN_SERVER, ".evil.example", "/", "x">>,
      <<"https://", "my", ORIGIN_SERVER, "/", "x">>,
      <<"https://", ORIGIN_SERVER, ":8443", "/", "x">>,
      <<"/", "x">>,
      <<"x">> }

RedirectRequests == {Req("GET", Mirror, MePath, "", FALSE), Req("POST", Mirror, LogoPath, "", FALSE)}

InitRedirect ==
    /\ CACHE_STRATEGY \in Strategies
    /\ CACHE_STATIC_ONLY \in BOOLEAN
    /\ cache = <<>>
    /\ inflight = <<>>
    /\ last = Step("init", NoReq, NoResp, FALSE, FALSE, NoOrigin)
    /\ missSent = [k \in {} |-> [sent |-> NoResp, origin |-> NoOrigin]]
    /\ call \in [op : {"fixRedirectUrl"}, location : Locations, req : RedirectRequests]
    /\ result = NoResult

CallFixRedirectUrl ==
    /\ call.op = "fixRedirectUrl"
    /\ ~result.done
    /\ result' = [done |-> TRUE, value |-> fixRedirectUrl(call.location, call.req)]
    /\ UNCHANGED <<CACHE_STRATEGY, CACHE_STATIC_ONLY, cache, inflight, last, missSent, call>>

NextRedirect == CallFixRedirectUrl

SpecRedirect == InitRedirect /\ [][NextRedirect]_vars

(***************************************************************************)
(* The specification of isStaticResource as a pure function.  A path is a  *)
(* c.req.path: it starts with '/'.                                          *)
(***************************************************************************)
StaticPaths ==
    { LogoPath, MePath,
      <<"/", "app", ".", "JS">>,
      <<"/", "img", ".", "PNG">>,
      <<"/", "v1", ".", "2", "/", "users">>,
      <<"/", "archive", ".", "tar", ".", "gz">>,
      <<"/", "page", ".", "html">>,
      <<"/", "a", ".", "png", "/">>,
      <<"/", "dir", ".", "js", "/", "file">>,
      <<"/", "file", ".">>,
      <<"/", ".", "css">>,
      <<"/", "js">>,
      <<"/", "png">>,
      <<"/">> }

InitStatic ==
    /\ CACHE_STRATEGY \in Strategies
    /\ CACHE_STATIC_ONLY \in BOOLEAN
    /\ cache = <<>>
    /\ inflight = <<>>
    /\ last = Step("init", NoReq, NoResp, FALSE, FALSE, NoOrigin)
    /\ missSent = [k \in {} |-> [sent |-> NoResp, origin |-> NoOrigin]]
    /\ call \in [op : {"isStaticResource"}, path : StaticPaths, contentType : {<<>>, Html, Png}]
    /\ result = NoResult

CallIsStaticResource ==
    /\ call.op = "isStaticResource"
    /\ ~result.done
    /\ result' = [done |-> TRUE, value |-> isStaticResource(call.path, call.contentType)]
    /\ UNCHANGED <<CACHE_STRATEGY, CACHE_STATIC_ONLY, cache, inflight, last, missSent, call>>

NextStatic == CallIsStaticResource

SpecStatic == InitStatic /\ [][NextStatic]_vars

(***************************************************************************)
(* The specification of a forwarded request in time.  Time passes in steps *)
(* of a second; the origin answers at some time or never.  The only timer  *)
(* of the application is the one of app.use(timeout(5000)), which answers  *)
(* 504 'Gateway Timeout' through app.onError; REQUEST_TIMEOUT is read from *)
(* the environment and used nowhere, and the call of originPool.request is *)
(* given no timeout and no signal.                                         *)
(***************************************************************************)
TimeoutMs == 5000

\* values of process.env.REQUEST_TIMEOUT, the default among them
RequestTimeouts == {2000, 10000}

\* how long a request is followed
MaxElapsed == 12000

InitTimeout ==
    /\ CACHE_STRATEGY \in Strategies
    /\ CACHE_STATIC_ONLY \in BOOLEAN
    /\ cache = <<>>
    /\ inflight = <<>>
    /\ last = Step("init", NoReq, NoResp, FALSE, FALSE, NoOrigin)
    /\ missSent = [k \in {} |-> [sent |-> NoResp, origin |-> NoOrigin]]
    /\ call \in [op : {"originPool.request"}, REQUEST_TIMEOUT : RequestTimeouts,
                 method : {"GET", "POST"},
                 answers : BOOLEAN, answerAt : {1000, 7000}, elapsed : {0}]
    /\ result = NoResult

\* a second passes while the request waits; a timer that is due fires first
Tick ==
    /\ call.op = "originPool.request"
    /\ ~result.done
    /\ call.elapsed < MaxElapsed
    /\ call.elapsed # TimeoutMs
    /\ ~(call.answers /\ call.answerAt = call.elapsed)
    /\ call' = [call EXCEPT !.elapsed = @ + 1000]
    /\ UNCHANGED <<CACHE_STRATEGY, CACHE_STATIC_ONLY, cache, inflight, last, missSent, result>>

\* the origin answers and the handler returns its response
OriginAnswersInTime ==
    /\ call.op = "originPool.request"
    /\ ~result.done
    /\ call.answers /\ call.answerAt = call.elapsed
    /\ result' = [done |-> TRUE, resp |-> Resp(200, "OK", NoHeaders, <<"b1">>),
                  originPending |-> FALSE]
    /\ UNCHANGED <<CACHE_STRATEGY, CACHE_STATIC_ONLY, cache, inflight, last, missSent, call>>

\* the timer of timeout(5000) fires: HTTPException(504) to app.onError; the
\* origin call goes on
TimeoutFires ==
    /\ call.op = "originPool.request"
    /\ ~result.done
    /\ call.elapsed = TimeoutMs
    /\ result' = [done |-> TRUE, resp |-> onError(HTTPException(504, "Gateway Timeout")),
                  originPending |-> TRUE]
    /\ UNCHANGED <<CACHE_STRATEGY, CACHE_STATIC_ONLY, cache, inflight, last, missSent, call>>

NextTimeout == Tick \/ OriginAnswersInTime \/ TimeoutFires

SpecTimeout == InitTimeout /\ [][NextTimeout]_vars

(***************************************************************************)
(* The server and the connection of its client.  The handlers hand         *)
(* originPool.request a path, a method and the headers, and no signal;     *)
(* nothing in the program listens for the close of the client's            *)
(* connection.  So the disconnect leaves the state of the program as it    *)
(* is: the call into the pool stays in flight, and its answer is handled   *)
(* as any other.                                                           *)
(***************************************************************************)
DisconnectRequests ==
    { Req("GET", Mirror, MePath, "", FALSE), Req("GET", Mirror, LogoPath, "", FALSE),
      Req("POST", Mirror, MePath, "", FALSE) }

InitDisconnect ==
    /\ CACHE_STRATEGY \in Strategies
    /\ CACHE_STATIC_ONLY \in BOOLEAN
    /\ cache = <<>>
    /\ inflight = <<>>
    /\ last = Step("init", NoReq, NoResp, FALSE, FALSE, NoOrigin)
    /\ missSent = [k \in {} |-> [sent |-> NoResp, origin |-> NoOrigin]]
    /\ call = [op |-> "client", connected |-> TRUE]
    /\ result = NoResult

\* the client closes its connection while its request waits for the origin
ClientDisconnects ==
    /\ call.op = "client" /\ call.connected
    /\ inflight # <<>>
    /\ call' = [call EXCEPT !.connected = FALSE]
    /\ UNCHANGED <<CACHE_STRATEGY, CACHE_STATIC_ONLY, cache, inflight, last, missSent, result>>

\* a client connects once nothing waits any more
ClientConnects ==
    /\ call.op = "client" /\ ~call.connected
    /\ inflight = <<>>
    /\ call' = [call EXCEPT !.connected = TRUE]
    /\ UNCHANGED <<CACHE_STRATEGY, CACHE_STATIC_ONLY, cache, inflight, last, missSent, result>>

NextDisconnect ==
    \/ \E req \in DisconnectRequests : call.connected /\ GetStar(req)
    \/ \E req \in DisconnectRequests : call.connected /\ AllStar(req)
    \/ \E i \in 1..MaxInFlight, response \in RaceAnswers : GetStarAnswered(i, response)
    \/ \E i \in 1..MaxInFlight, response \in RaceAnswers : AllStarAnswered(i, response)
    \/ ClientDisconnects
    \/ ClientConnects

SpecDisconnect == InitDisconnect /\ [][NextDisconnect]_vars

(***************************************************************************)
(* The proxy handlers on redirects, for requests whose URL parses and for  *)
(* requests whose URL does not                                             *)
(***************************************************************************)
BadUrlRequests ==
    { Req("GET", Mirror, MePath, "", FALSE), Req("GET", InvalidHost, MePath, "", FALSE),
      Req("POST", InvalidHost, MePath, "", FALSE) }

BadUrlAnswers ==
    { Origin(301, "Moved Permanently", ("location" :> OriginLocation), <<>>),
      Origin(302, "Found", ("content-type" :> Html), <<"b1">>),
      Origin(307, "Temporary Redirect", ("location" :> <<"/", "x">>), <<>>),
      Origin(200, "OK", ("content-type" :> Html), <<"b1">>),
      Origin(200, "OK", ("content-type" :> Png), <<"b2">>) }

NextBadUrl ==
    \/ \E req \in BadUrlRequests : GetStar(req)
    \/ \E req \in BadUrlRequests : AllStar(req)
    \/ \E i \in 1..MaxInFlight, response \in BadUrlAnswers : GetStarAnswered(i, response)
    \/ \E i \in 1..MaxInFlight, response \in BadUrlAnswers : AllStarAnswered(i, response)

SpecBadUrl == Init /\ [][NextBadUrl]_vars

(***************************************************************************)
(* The server reached under two names: GET requests for one path with      *)
(* different Host headers, and for different paths and query strings       *)
(***************************************************************************)
OtherMirror == "alt.local"

HostRequests ==
    { Req("GET", Mirror, MePath, "", FALSE), Req("GET", OtherMirror, MePath, "", FALSE),
      Req("GET", Mirror, MePath, CACHE_CLEAR_TOKEN, FALSE),
      Req("GET", Mirror, LogoPath, "", FALSE) }

NextHosts ==
    \/ \E req \in HostRequests : GetStar(req)
    \/ \E i \in 1..MaxInFlight, response \in RaceAnswers : GetStarAnswered(i, response)
    \/ TtlElapses

SpecHosts == Init /\ [][NextHosts]_vars

(***************************************************************************)
(* The link conversion middleware.  An HTML text is the sequence of its    *)
(* elements that carry a URL: the tag, the attribute and the URL, which is *)
(* a scheme, a host and the rest.  The middleware is made once with a list *)
(* of rules and keeps the list for every request it handles.               *)
(***************************************************************************)
Element(tag, attr, url) == [tag |-> tag, attr |-> attr, url |-> url]

\* the regular expression of replaceDomain: the tag and the attribute without
\* regard to case, a quoted URL of either scheme whose host is origin
replaceDomain(htmlString, tagName, attrName, origin, target) ==
    [i \in 1..Len(htmlString) |->
        LET el == htmlString[i]
        IN  IF /\ toLowerCase(el.tag) = tagName
               /\ toLowerCase(el.attr) = attrName
               /\ Len(el.url) >= 2
               /\ el.url[1] \in {"http://", "https://"}
               /\ el.url[2] = origin
            THEN [el EXCEPT !.url = <<el.url[1], target>> \o SubSeq(el.url, 3, Len(el.url))]
            ELSE el]

convertLink(htmlString, origin, target) ==
    replaceDomain(replaceDomain(replaceDomain(replaceDomain(htmlString,
        "a", "href", origin, target),
        "img", "src", origin, target),
        "link", "href", origin, target),
        "script", "src", origin, target)

\* the list after list.forEach: item.target = c.req.header('host') || '' for
\* each item whose target is 'HOST'; host is '' when the header is absent
listAfterForEach(list, host) ==
    [i \in 1..Len(list) |->
        IF list[i].target = "HOST" THEN [list[i] EXCEPT !.target = host] ELSE list[i]]

\* bodyText after the first k items of the list
RECURSIVE bodyAfterForEach(_, _, _)
bodyAfterForEach(list, k, bodyText) ==
    IF k = 0 THEN bodyText
    ELSE convertLink(bodyAfterForEach(list, k - 1, bodyText), list[k].origin, list[k].target)

\* the middleware after next(): the list it leaves and c.res
convertLinkMiddleware(list, host, res) ==
    IF res.body # <<>> /\ includes(hget(res.headers, "content-type"), "text/html")
    THEN [list |-> listAfterForEach(list, host),
          res |-> [res EXCEPT !.body = bodyAfterForEach(listAfterForEach(list, host),
                                                        Len(list), res.body)]]
    ELSE [list |-> list, res |-> res]

ConvertRules ==
    { <<[origin |-> ORIGIN_SERVER, target |-> "HOST"]>>,
      <<[origin |-> ORIGIN_SERVER, target |-> "HOST"],
        [origin |-> "static.example", target |-> "HOST"]>>,
      <<[origin |-> ORIGIN_SERVER, target |-> "cdn.example"]>> }

ConvertHosts == {Mirror, OtherMirror, ""}

OriginUrl == <<"https://", ORIGIN_SERVER, "/", "x">>

ConvertResponses ==
    { Resp(200, "OK", ("content-type" :> Html),
           << Element("a", "href", OriginUrl),
              Element("IMG", "src", <<"http://", ORIGIN_SERVER, "/", "logo", ".", "png">>),
              Element("form", "action", OriginUrl),
              Element("a", "href", <<"https://", "other.example", "/", "x">>) >>),
      Resp(200, "OK", ("content-type" :> Html),
           << Element("script", "src", <<"https://", "static.example", "/", "app", ".", "js">>),
              Element("link", "HREF", OriginUrl),
              Element("a", "href", <<"/", "x">>) >>),
      Resp(200, "OK", ("content-type" :> Png), << Element("a", "href", OriginUrl) >>),
      Resp(204, "No Content", ("content-type" :> Html), <<>>) }

InitConvert ==
    /\ CACHE_STRATEGY \in Strategies
    /\ CACHE_STATIC_ONLY \in BOOLEAN
    /\ cache = <<>>
    /\ inflight = <<>>
    /\ last = Step("init", NoReq, NoResp, FALSE, FALSE, NoOrigin)
    /\ missSent = [k \in {} |-> [sent |-> NoResp, origin |-> NoOrigin]]
    /\ call \in {[op |-> "convertLinkMiddleware", configured |-> l, list |-> l] : l \in ConvertRules}
    /\ result = NoResult

\* a request with the Host header host, whose handlers leave res in c.res
ConvertLinkRequest(host, res) ==
    /\ call.op = "convertLinkMiddleware"
    /\ LET after == convertLinkMiddleware(call.list, host, res)
       IN  /\ call' = [call EXCEPT !.list = after.list]
           /\ result' = [done |-> TRUE, host |-> host, origin |-> res, res |-> after.res]
    /\ UNCHANGED <<CACHE_STRATEGY, CACHE_STATIC_ONLY, cache, inflight, last, missSent>>

NextConvert == \E host \in ConvertHosts, res \in ConvertResponses : ConvertLinkRequest(host, res)

SpecConvert == InitConvert /\ [][NextConvert]_vars

(***************************************************************************)
(* Properties                                                              *)
(***************************************************************************)
xCache(resp) == hget(resp.headers, "x-cache")
cacheControlOf(resp) == hget(resp.headers, "cache-control")

\* the latest step is a request step
isRequestStep(step) == step.kind \in {"responded", "forwarded", "completed"}

\* C1: with the strategy 'off' the store stays empty, no step reads or writes
\* it, no waiting request has looked a key up, and GET /cache/info,
\* /cache/clear and /cache/stats answer 403 {error: 'Cache is disabled'}.
C1_OffNeverUsesCache ==
    CACHE_STRATEGY = "off" =>
        /\ cache = <<>>
        /\ ~last.cacheGet /\ ~last.cacheSet
        /\ \A i \in 1..Len(inflight) : ~inflight[i].looked
        /\ (/\ last.kind = "responded"
            /\ last.req.method = "GET"
            /\ last.req.path \in {CacheInfoPath, CacheClearPath, CacheStatsPath})
           => /\ last.resp.status = 403
              /\ last.resp.body = <<"json", "error", "Cache is disabled">>

\* a GET has been answered by the origin with 200 under 'off' and left no entry
C1_Witness ==
    /\ CACHE_STRATEGY = "off"
    /\ last.kind = "completed"
    /\ last.req.method = "GET"
    /\ last.resp.status = 200
    /\ cache = <<>>

\* C2: shouldCacheResponse is true exactly when the strategy is not 'off',
\* staticOnly does not reject the resource, and either the strategy is
\* 'force' or it is 'auto' and the cache-control is absent or has neither
\* no-store nor no-cache and has private only with staticOnly.
C2_Table(path, contentType, cacheControl) ==
    /\ CACHE_STRATEGY # "off"
    /\ CACHE_STATIC_ONLY => isStaticResource(path, contentType)
    /\ \/ CACHE_STRATEGY = "force"
       \/ /\ CACHE_STRATEGY = "auto"
          /\ \/ cacheControl = <<>>
             \/ /\ "no-store" \notin directivesOf(cacheControl)
                /\ "no-cache" \notin directivesOf(cacheControl)
                /\ "private" \in directivesOf(cacheControl) => CACHE_STATIC_ONLY

C2_DecisionTable ==
    (call.op = "shouldCacheResponse" /\ result.done) =>
        result.value = C2_Table(call.path, call.contentType, call.cacheControl)

\* 'auto' with staticOnly caches a static resource the origin marked private
C2_Witness ==
    /\ call.op = "shouldCacheResponse" /\ result.done
    /\ CACHE_STRATEGY = "auto" /\ CACHE_STATIC_ONLY
    /\ "private" \in directivesOf(call.cacheControl)
    /\ result.value = TRUE

\* the step answered a GET on a proxied path with the origin's 200
isGet200(step) ==
    /\ step.kind = "completed"
    /\ step.req.method = "GET"
    /\ ~step.origin.failed
    /\ step.origin.statusCode = 200

\* the step received a GET on a proxied path
isGetReceived(step) ==
    /\ step.kind \in {"responded", "forwarded"}
    /\ step.req.method = "GET"
    /\ ~isManagementPath(step.req.path)

\* C3: under 'auto' without staticOnly, the origin's 200 with no Cache-Control
\* to a GET is stored and sent with X-Cache: MISS (Cached) and Cache-Control:
\* public, max-age=<ttl>; a GET that finds the entry of its URL in the store
\* is answered with X-Cache: HIT.
C3_Step ==
    (CACHE_STRATEGY = "auto" /\ ~CACHE_STATIC_ONLY) =>
        /\ (isGet200(last') /\ cacheControlOf(last'.origin) = <<>>)
           => /\ last'.cacheSet
              /\ cacheHas(cache', cacheKeyOf(last'.req))
              /\ cacheValue(cache', cacheKeyOf(last'.req)).body = last'.origin.body
              /\ xCache(last'.resp) = <<"MISS (Cached)">>
              /\ cacheControlOf(last'.resp) = publicMaxAge
        /\ (isGetReceived(last') /\ cacheHas(cache, cacheKeyOf(last'.req)))
           => /\ last'.kind = "responded"
              /\ xCache(last'.resp) = <<"HIT">>
              /\ last'.resp.body = cacheValue(cache, cacheKeyOf(last'.req)).body

C3_MissThenHit == [][C3_Step]_vars

\* a HIT on an entry stored from an answer that had no Cache-Control
C3_Witness ==
    /\ CACHE_STRATEGY = "auto" /\ ~CACHE_STATIC_ONLY
    /\ last.kind = "responded"
    /\ xCache(last.resp) = <<"HIT">>
    /\ cacheKeyOf(last.req) \in DOMAIN missSent
    /\ cacheControlOf(missSent[cacheKeyOf(last.req)].origin) = <<>>
    /\ xCache(missSent[cacheKeyOf(last.req)].sent) = <<"MISS (Cached)">>

\* C4: under 'auto' without staticOnly, the origin's 200 with a private
\* Cache-Control to a GET leaves the store as it was and is sent with
\* X-Cache: BYPASS and X-Cache-Reason: cache-control-forbidden.
C4_Step ==
    (/\ CACHE_STRATEGY = "auto" /\ ~CACHE_STATIC_ONLY
     /\ isGet200(last')
     /\ "private" \in directivesOf(cacheControlOf(last'.origin)))
    => /\ cache' = cache
       /\ ~last'.cacheSet
       /\ xCache(last'.resp) = <<"BYPASS">>
       /\ hget(last'.resp.headers, "x-cache-reason") = <<"cache-control-forbidden">>

C4_PrivateBypassed == [][C4_Step]_vars

C4_Witness ==
    /\ CACHE_STRATEGY = "auto" /\ ~CACHE_STATIC_ONLY
    /\ isGet200(last)
    /\ "private" \in directivesOf(cacheControlOf(last.origin))
    /\ xCache(last.resp) = <<"BYPASS">>
    /\ cache # <<>>

\* the diagnostic headers
DiagnosticHeaders == {"x-cache", "x-cache-key", "x-cache-strategy"}

withoutDiagnostics(headers) == [k \in (DOMAIN headers) \ DiagnosticHeaders |-> headers[k]]

\* the latest step answered a GET from the store
isHit(step) == step.kind = "responded" /\ xCache(step.resp) = <<"HIT">>

\* C5: under 'force' a HIT has the status, the statusText and the body of the
\* response sent when the entry was stored, and the same headers but for the
\* diagnostic ones.
C5_RoundTrip ==
    (CACHE_STRATEGY = "force" /\ isHit(last) /\ cacheKeyOf(last.req) \in DOMAIN missSent) =>
        LET sent == missSent[cacheKeyOf(last.req)].sent
        IN  /\ last.resp.status = sent.status
            /\ last.resp.statusText = sent.statusText
            /\ last.resp.body = sent.body
            /\ withoutDiagnostics(last.resp.headers) = withoutDiagnostics(sent.headers)

\* C6: under 'force' every MISS (Cached) response and every HIT carries
\* Cache-Control: public, max-age=<ttl>.
C6_ForceCacheControl ==
    (/\ CACHE_STRATEGY = "force"
     /\ isRequestStep(last)
     /\ xCache(last.resp) \in {<<"MISS (Cached)">>, <<"HIT">>})
    => cacheControlOf(last.resp) = publicMaxAge

\* what C7 expects for an origin answer
C7_Expected(origin) ==
    IF cacheControlOf(origin) = <<>> THEN publicMaxAge ELSE cacheControlOf(origin)

\* C7: under 'auto' every MISS (Cached) response and every HIT carries
\* public, max-age=<ttl> when the origin gave no Cache-Control, and the
\* origin's value otherwise.
C7_AutoCacheControl ==
    CACHE_STRATEGY = "auto" =>
        /\ (isGet200(last) /\ xCache(last.resp) = <<"MISS (Cached)">>)
           => cacheControlOf(last.resp) = C7_Expected(last.origin)
        /\ (isHit(last) /\ cacheKeyOf(last.req) \in DOMAIN missSent)
           => cacheControlOf(last.resp) = C7_Expected(missSent[cacheKeyOf(last.req)].origin)

\* C8: a step of a non-GET request leaves the store as it was and neither
\* reads nor writes it, and its response is not a HIT.
C8_Step ==
    (isRequestStep(last') /\ last'.req.method # "GET")
    => /\ cache' = cache
       /\ ~last'.cacheGet /\ ~last'.cacheSet
       /\ xCache(last'.resp) # <<"HIT">>

C8_NonGetLeavesCache == [][C8_Step]_vars

\* C9: the response to a proxied non-GET request that the origin answered
\* carries Cache-Control: no-cache, no-store, must-revalidate.
C9_NonGetNoStore ==
    (last.kind = "completed" /\ last.req.method # "GET" /\ ~last.origin.failed)
    => cacheControlOf(last.resp) = noStore

\* C10: with the cache enabled GET /cache/clear answers 401 and leaves the
\* store as it was unless the token is the configured one, and then empties
\* the store and answers 200 with success:true.
C10_Step ==
    (/\ CACHE_STRATEGY # "off"
     /\ last'.kind = "responded"
     /\ last'.req.method = "GET"
     /\ last'.req.path = CacheClearPath)
    => IF last'.req.token = CACHE_CLEAR_TOKEN
       THEN /\ cache' = <<>>
            /\ last'.resp.status = 200
            /\ last'.resp.body = <<"json", "message", "Cache cleared successfully", "success", "true">>
       ELSE /\ cache' = cache
            /\ last'.resp.status = 401

C10_ClearNeedsToken == [][C10_Step]_vars

\* the step ran the clear handler with the cache enabled
isClear(step) ==
    /\ CACHE_STRATEGY # "off"
    /\ step.kind = "responded"
    /\ step.req.path = CacheClearPath

clearSucceeded == cJson(<<"message", "Cache cleared successfully", "success", "true">>, 200)

\* C11: with the cache enabled every clear, on an empty store too, answers 200
\* with success:true and leaves the store empty; a clear that follows a clear
\* changes nothing; a GET that arrives while the store is empty is forwarded
\* to the origin and not answered as a HIT.
C11_Step ==
    /\ isClear(last')
       => /\ cache' = <<>>
          /\ last'.resp.status = 200
          /\ last'.req.method = "GET" => last'.resp = clearSucceeded
    /\ (isClear(last) /\ isClear(last'))
       => /\ cache' = cache
          /\ inflight' = inflight
          /\ missSent' = missSent
    /\ (CACHE_STRATEGY # "off" /\ isGetReceived(last') /\ cache = <<>>)
       => /\ last'.kind = "forwarded"
          /\ last'.cacheGet
          /\ xCache(last'.resp) # <<"HIT">>

C11_ClearIdempotent == [][C11_Step]_vars

\* a GET /cache/clear with the configured token answered 200 with
\* success:true, the store empty after it
C11_Witness ==
    /\ isClear(last)
    /\ last.req.method = "GET"
    /\ last.req.token = CACHE_CLEAR_TOKEN
    /\ last.resp = clearSucceeded
    /\ cache = <<>>

\* the error codes of a call that failed because the origin did not answer in
\* time
TimeoutCodes == {"UND_ERR_SOCKET_TIMEOUT", "UND_ERR_HEADERS_TIMEOUT"}

errorResponse(status, message) == cJson(<<"error", message>>, status)

\* C12: a failed origin call is answered 504 {error: 'Gateway Timeout'} when
\* it failed with a timeout and 502 {error: 'Bad Gateway'} otherwise; a request
\* whose handler left no response is answered 500 {error: 'Internal Server
\* Error'}; the store is as it was in all three cases.
C12_Step ==
    /\ (last'.kind = "completed" /\ last'.origin.failed)
       => /\ last'.resp = headOf(last'.req,
                 IF last'.origin.error.code \in TimeoutCodes
                 THEN errorResponse(504, "Gateway Timeout")
                 ELSE errorResponse(502, "Bad Gateway"))
          /\ cache' = cache
    /\ (/\ last'.kind = "responded"
        /\ isManagementPath(last'.req.path)
        /\ last'.req.path \notin {HealthPath, CacheInfoPath, CacheClearPath, CacheStatsPath}
           \/ routeMethod(last'.req.method) # "GET"
        /\ ~last'.req.big)
       => /\ last'.resp = headOf(last'.req, errorResponse(500, "Internal Server Error"))
          /\ cache' = cache

C12_ErrorMapping == [][C12_Step]_vars

RequestDropped == {"accept-encoding", "connection", "keep-alive", "content-length"}

\* C14: the headers given to the origin call have none of accept-encoding,
\* connection, keep-alive, content-length, and have every other inbound
\* header but host under its name with its value, and nothing else but host.
C14_RequestHeaders ==
    (call.op = "forward" /\ result.done) =>
        /\ DOMAIN result.headers \cap RequestDropped = {}
        /\ \A n \in DOMAIN call.headers :
              toLowerCase(n) \notin RequestDropped \cup {"host"}
              => /\ toLowerCase(n) \in DOMAIN result.headers
                 /\ result.headers[toLowerCase(n)] = call.headers[n]
        /\ \A k \in DOMAIN result.headers :
              \E n \in DOMAIN call.headers : toLowerCase(n) = k

\* inbound headers with dropped names in several letter cases and two others
C14_Witness ==
    /\ call.op = "forward" /\ result.done
    /\ DOMAIN call.headers = InboundNames
    /\ DOMAIN result.headers = {"host", "user-agent", "x-token"}

\* C15: for each form of input the result of processResponseHeaders has none
\* of content-encoding, transfer-encoding, content-length, and has every
\* other input header with each of its values; an absent or unrecognized
\* input gives the empty header set.
C15_ResponseHeaders ==
    (call.op = "processResponseHeaders" /\ result.done) =>
        LET pairs == call.input.pairs
            out == result.headers
        IN  /\ DOMAIN out \cap ResponseDropped = {}
            /\ \A i \in 1..Len(pairs) :
                  toLowerCase(pairs[i].key) \notin ResponseDropped
                  => \A j \in 1..Len(pairs[i].items) :
                        /\ toLowerCase(pairs[i].key) \in DOMAIN out
                        /\ \E m \in 1..Len(out[toLowerCase(pairs[i].key)]) :
                              includes(out[toLowerCase(pairs[i].key)][m], pairs[i].items[j])
            /\ call.input.form \in {"none", "other"} => out = NoValues

\* an absolute http:// or https:// URL
isAbsolute(location) == startsWith(location, <<"http://">>) \/ startsWith(location, <<"https://">>)

\* the host of an absolute URL: what stands between the scheme and the path
\* or the query
hostOf(location) ==
    LET ends == {i \in 3..Len(location) : location[i] \in {"/", "?u="}}
    IN  SubSeq(location, 2, IF ends = {} THEN Len(location) ELSE SetMin(ends) - 1)

\* what follows the host
restOf(location) == SubSeq(location, Len(hostOf(location)) + 2, Len(location))

fixRedirectUrlCalled == call.op = "fixRedirectUrl" /\ result.done

\* C16: for an absolute Location whose host is the origin's, in either scheme,
\* fixRedirectUrl returns the mirror's scheme and host followed by the rest of
\* the Location.
C16_OriginRewritten ==
    (/\ fixRedirectUrlCalled
     /\ isAbsolute(call.location)
     /\ hostOf(call.location) = <<ORIGIN_SERVER>>)
    => result.value = <<schemeToken(call.req.protocol), call.req.host>> \o restOf(call.location)

\* C17: for an absolute Location whose host is not the origin's,
\* fixRedirectUrl returns the Location as it is.
C17_OtherHostUnchanged ==
    (/\ fixRedirectUrlCalled
     /\ isAbsolute(call.location)
     /\ hostOf(call.location) # <<ORIGIN_SERVER>>)
    => result.value = call.location

\* C18: a request to /health or to a path under /cache/ is answered without
\* the origin, under every strategy; the store holds no entry for its URL
\* before or after it and is left as it was or emptied; no request to such a
\* path waits for the origin; GET /health answers 200 'OK'.
C18_Step ==
    /\ (isRequestStep(last') /\ isManagementPath(last'.req.path))
       => /\ last'.kind = "responded"
          /\ inflight' = inflight
          /\ cache' = cache \/ cache' = <<>>
          /\ cacheKeyOf(last'.req) \notin cacheKeys(cache) \cup cacheKeys(cache')
          /\ (last'.req.method = "GET" /\ last'.req.path = HealthPath)
             => last'.resp = cText("OK", 200)
    /\ \A i \in 1..Len(inflight') : ~isManagementPath(inflight'[i].req.path)

C18_ManagementBypasses == [][C18_Step]_vars

\* a GET under /cache/ with no route of its own, answered while the store
\* holds an entry
C18_Witness ==
    /\ CACHE_STRATEGY # "off"
    /\ last.kind = "responded"
    /\ last.req.method = "GET"
    /\ last.req.path = CacheOtherPath
    /\ cache # <<>>

\* the step sent the response to a GET on a proxied path
isGetAnswered(step) ==
    /\ step.kind \in {"responded", "completed"}
    /\ step.req.method = "GET"
    /\ ~isManagementPath(step.req.path)

\* the reason C19 expects on a bypass
C19_Reason(step) ==
    IF CACHE_STRATEGY = "off" THEN "disabled"
    ELSE IF CACHE_STATIC_ONLY
            /\ ~isStaticResource(step.req.path, hget(step.resp.headers, "content-type"))
    THEN "non-static"
    ELSE "cache-control-forbidden"

\* C19: every response to a proxied GET carries X-Cache: HIT, MISS (Cached)
\* or BYPASS for the branch taken, X-Cache-Strategy: <the strategy>, and on a
\* BYPASS the X-Cache-Reason of the case.
C19_Diagnostics ==
    isGetAnswered(last) =>
        /\ xCache(last.resp) \in {<<"HIT">>, <<"MISS (Cached)">>, <<"BYPASS">>}
        /\ xCache(last.resp) = <<"HIT">> <=> last.cacheGet
        /\ xCache(last.resp) = <<"MISS (Cached)">> <=> last.cacheSet
        /\ hget(last.resp.headers, "x-cache-strategy") = <<CACHE_STRATEGY>>
        /\ xCache(last.resp) = <<"BYPASS">>
           => hget(last.resp.headers, "x-cache-reason") = <<C19_Reason(last)>>

\* a response was sent
isResponse(resp) == resp.status \in 200..599

\* C20, step by step: a request is answered at once with one response, or
\* joins the requests waiting for the origin without a response yet; a
\* waiting request leaves with one response; nothing else adds or removes a
\* waiting request.
C20_Step ==
    /\ last'.kind = "responded"
       => isResponse(last'.resp) /\ inflight' = inflight
    /\ last'.kind = "forwarded"
       => /\ last'.resp = NoResp
          /\ Len(inflight') = Len(inflight) + 1
          /\ SubSeq(inflight', 1, Len(inflight)) = inflight
          /\ inflight'[Len(inflight')].req = last'.req
    /\ last'.kind = "completed"
       => /\ isResponse(last'.resp)
          /\ \E i \in 1..Len(inflight) :
                inflight[i].req = last'.req /\ inflight' = removeAt(inflight, i)
    /\ ~isRequestStep(last') => inflight' = inflight

C21_HasAssetExtension(path) ==
    \E i \in 1..Len(path) :
        /\ path[i] = "."
        /\ \A j \in (i + 1)..Len(path) : path[j] # "."
        /\ Len(path) = i + 1
        /\ toLowerCase(path[i + 1]) \in STATIC_EXTENSIONS

\* C21: with no content type isStaticResource(p, undefined) is true exactly
\* when what follows the last '.' of p is, in lower case, an asset extension;
\* it is false for a path with no '.'.
C21_StaticByExtension ==
    (call.op = "isStaticResource" /\ result.done /\ call.contentType = <<>>) =>
        /\ result.value <=> C21_HasAssetExtension(call.path)
        /\ (\A i \in 1..Len(call.path) : call.path[i] # ".") => ~result.value

\* an upper-case extension found static without a content type
C21_Witness ==
    /\ call.op = "isStaticResource" /\ result.done
    /\ call.contentType = <<>>
    /\ call.path = <<"/", "app", ".", "JS">>
    /\ result.value

\* C22: a GET whose URL has no entry in the store misses and is forwarded,
\* also while another GET for the same URL waits for the origin; each answer
\* that passes the policy is stored, and the entry after a store is the one
\* of the request that stored last.
C22_Step ==
    /\ (CACHE_STRATEGY # "off" /\ isGetReceived(last') /\ ~cacheHas(cache, cacheKeyOf(last'.req)))
       => /\ last'.kind = "forwarded"
          /\ last'.cacheGet
          /\ inflight' = Append(inflight, Waiting(last'.req, TRUE))
    /\ (isGet200(last')
        /\ shouldCacheResponse(last'.req.path, hget(last'.origin.headers, "content-type"),
                               cacheControlOf(last'.origin)))
       => /\ last'.cacheSet
          /\ cacheHas(cache', cacheKeyOf(last'.req))
          /\ cacheValue(cache', cacheKeyOf(last'.req)).body = last'.origin.body

C22_NoSingleFlight == [][C22_Step]_vars

\* two GET for one URL overlapped: the first has stored its answer, the second
\* still waits for the origin with its lookup done
C22_Witness ==
    /\ last.kind = "completed" /\ last.cacheSet
    /\ \E i \in 1..Len(inflight) :
          /\ inflight[i].req = last.req
          /\ inflight[i].looked
    /\ cacheValue(cache, cacheKeyOf(last.req)).body = <<"b1">>

\* C23: a forwarded request whose origin never answers waits no longer than
\* REQUEST_TIMEOUT, and is then answered 504.
C23_BoundedByRequestTimeout ==
    (call.op = "originPool.request" /\ ~call.answers) =>
        /\ call.elapsed <= call.REQUEST_TIMEOUT
        /\ result.done => result.resp.status = 504

\* C24: once the client of a waiting request has disconnected, the request to
\* the origin is cancelled: no call into the pool is in flight for it any more.
C24_CancelledOnDisconnect ==
    (call.op = "client" /\ ~call.connected) => inflight = <<>>

C26_SameResource(a, b) == a.path = b.path /\ a.token = b.token

C26_KeyOfPathAndQuery ==
    (last.kind = "forwarded" /\ last.cacheGet)
    => ~\E r \in HostRequests :
           C26_SameResource(r, last.req) /\ cacheHas(cache, cacheKeyOf(r))

\* C27: every entry of the store that a step leaves there was there before
\* with the same value, or was stored by this step: by the answer to a GET
\* on a path that is neither /health nor under /cache/, with status 200,
\* under the key 'cache:' and the URL of that request.  An entry leaves the
\* store only by a clear, by the eviction a store makes, or by the lookup
\* that finds it expired.
C27_Kept(e) == \E j \in 1..Len(cache) : cache[j].key = e.key /\ cache[j].value = e.value

C27_Step ==
    /\ \A i \in 1..Len(cache') :
          \/ C27_Kept(cache'[i])
          \/ /\ last'.kind = "completed" /\ last'.cacheSet
             /\ last'.req.method = "GET"
             /\ ~isManagementPath(last'.req.path)
             /\ ~last'.origin.failed /\ last'.origin.statusCode = 200
             /\ i = Len(cache')
             /\ cache'[i].key = <<"cache:">> \o urlOf(last'.req)
             /\ cache'[i].value.status = 200
             /\ cache'[i].value.body = last'.origin.body
    /\ \A i \in 1..Len(cache') : cache'[i].value.status = 200
    /\ \A j \in 1..Len(cache) :
          cache[j].key \notin cacheKeys(cache')
          => \/ isClear(last')
             \/ last'.kind = "completed" /\ last'.cacheSet /\ Len(cache) >= CacheMax
             \/ /\ last'.cacheGet /\ cache[j].stale
                /\ cache[j].key = cacheKeyOf(last'.req)

C27_EntriesFromGet200 == [][C27_Step]_vars

\* the answer to a GET has just been stored under the key of its URL
C27_Witness ==
    /\ last.kind = "completed" /\ last.cacheSet
    /\ cache # <<>>
    /\ cache[Len(cache)].key = cacheKeyOf(last.req)
    /\ cache[Len(cache)].value.body = <<"b2">>
    /\ cache[Len(cache)].value.status = 200

\* C28: a GET answered as a HIT is answered without the origin: the requests
\* waiting for the origin are the same before and after it, nothing is stored,
\* and the store holds the same entries with the same values.
C28_Entries(c) == {[key |-> c[i].key, value |-> c[i].value] : i \in 1..Len(c)}

C28_Step ==
    (isRequestStep(last') /\ xCache(last'.resp) = <<"HIT">>)
    => /\ last'.kind = "responded"
       /\ inflight' = inflight
       /\ ~last'.cacheSet
       /\ Len(cache') = Len(cache)
       /\ C28_Entries(cache') = C28_Entries(cache)

C28_HitNotForwarded == [][C28_Step]_vars

\* a HIT answered while another request waits for the origin
C28_Witness ==
    /\ isHit(last)
    /\ inflight # <<>>
    /\ cacheHas(cache, cacheKeyOf(last.req))

\* C29: the origin's answer with a status in 300..399 and a Location that
\* fixRedirectUrl rewrites reaches the client as a redirect with the origin's
\* status and the rewritten Location.
C29_RedirectKeepsStatus ==
    (/\ last.kind = "completed"
     /\ ~last.origin.failed
     /\ last.origin.statusCode \in 300..399
     /\ hget(last.origin.headers, "location") # <<>>
     /\ canParse(urlOf(last.req)))
    => /\ last.resp.status = last.origin.statusCode
       /\ hget(last.resp.headers, "location")
              = fixRedirectUrl(hget(last.origin.headers, "location"), last.req)

\* C30: with rules whose target is 'HOST', every a href, img src, link href
\* and script src of an HTML response that points at the origin of a rule
\* points, in the response sent, at the Host of the request being answered.
C30_Converted(el) ==
    /\ <<toLowerCase(el.tag), toLowerCase(el.attr)>>
           \in {<<"a", "href">>, <<"img", "src">>, <<"link", "href">>, <<"script", "src">>}
    /\ Len(el.url) >= 2
    /\ \E i \in 1..Len(call.configured) : el.url[2] = call.configured[i].origin

C30_LinksToOwnHost ==
    (/\ call.op = "convertLinkMiddleware" /\ result.done
     /\ \A i \in 1..Len(call.configured) : call.configured[i].target = "HOST"
     /\ includes(hget(result.origin.headers, "content-type"), "text/html"))
    => \A i \in 1..Len(result.origin.body) :
           C30_Converted(result.origin.body[i]) => result.res.body[i].url[2] = result.host

====
